---- MODULE Spec2Model ----
(***************************************************************************)
(* Model of load.go (package gofpdf): the PDF container reader.            *)
(*                                                                         *)
(* A file is a sequence of byte values; offsets are 0-based as in the Go   *)
(* code, so the byte at offset o is file[o+1].  A read of the underlying   *)
(* file fails with a non-EOF error at a negative offset and at the one     *)
(* unreadable offset badAt (badAt = -1: every offset is readable).         *)
(***************************************************************************)
EXTENDS Integers, Sequences, FiniteSets, TLC

VARIABLES
    file,           \* content of the file behind r.file
    badAt,          \* offset at which ReadAt returns a non-EOF error, or -1
    fileOpen,       \* the os.File handle is open
    recentReading,  \* r.recentReading
    cursorAt,       \* r.cursorAt
    recentDict,     \* r.recentDict
    pdfVersion,     \* r.pdfVersion
    xrefOffset,     \* r.xrefOffset
    xrefTable,      \* r.xrefTable
    part,           \* parseXRefTable: part
    objRow,         \* parseXRefTable: objRow
    objNum,         \* parseXRefTable: objNum
    atKey,          \* parsePDFDict: atKey
    cK,             \* parsePDFDict: cK
    pc,             \* control location of the call in progress
    err,            \* error returned by the call ("" = nil)
    hist,           \* observations of the run (what was read, what failed)
    input           \* how the file was put together (never changes)

vars == <<file, badAt, fileOpen, recentReading, cursorAt, recentDict,
          pdfVersion, xrefOffset, xrefTable, part, objRow, objNum,
          atKey, cK, pc, err, hist, input>>

-----------------------------------------------------------------------------
(* Byte strings used by the code and by the input families.                *)

SP == 32
LF == 10

sPDFHeader == <<37,80,68,70,45,49,46>>              \* "%PDF-1."
sFooter    == <<70,79,69,37,37>>                    \* "FOE%%"
sXref      == <<120,114,101,102>>                   \* "xref"
sStartxref == <<115,116,97,114,116,120,114,101,102>>\* "startxref"
sTrailer   == <<116,114,97,105,108,101,114>>        \* "trailer"
sF         == <<102>>                               \* "f"
sN         == <<110>>                               \* "n"
sLT        == <<60>>                                \* "<"
sGT        == <<62>>                                \* ">"
sSlash     == <<47>>                                \* "/"

-----------------------------------------------------------------------------
(* Token classifier.                                                       *)

whiteSpaceChars == {0, 9, 10, 12, 13, 32}

(* delimiterChars with the space byte added: the two classes overlap *)
delimiterChars_withSpace == {40, 41, 60, 62, 91, 93, 123, 125, 47, 37, 32}

delimiterChars == {40, 41, 60, 62, 91, 93, 123, 125, 47, 37}

isInByteArr(b, arr) == b \in arr

IsDigit(b) == 48 <= b /\ b <= 57

HasPrefix(s, p) == Len(s) >= Len(p) /\ SubSeq(s, 1, Len(p)) = p

HasSuffix(s, p) == Len(s) >= Len(p) /\ SubSeq(s, Len(s) - Len(p) + 1, Len(s)) = p

reverseByteSlice(in) == [i \in 1..Len(in) |-> in[Len(in) - i + 1]]

-----------------------------------------------------------------------------
(* pdfReadAt: one token read.  The result is                               *)
(*   st = "ok"   : the call returned nil; reading is the new recentReading *)
(*   st = "err"  : ReadAt failed; the call returned the error, cursorAt is *)
(*                 the failing offset and recentReading is not assigned    *)
(*   st = "spin" : the loop is past end-of-file with nothing accumulated   *)
(*                 and a whitespace byte in buf: every further iteration   *)
(*                 takes the `continue` branch (until the int64 cursor     *)
(*                 would wrap, 2^63 reads later), so the call does not     *)
(*                 return; cursorAt is the offset of the next iteration.   *)
(* buf is the one-byte buffer: ReadAt leaves it untouched at end-of-file.  *)

RECURSIVE readLoop_eatDelimiter(_, _, _, _, _, _, _)
RECURSIVE readLoop(_, _, _, _, _, _, _)

(* readLoop with the cursor moved over the delimiter that ends a token. *)
readLoop_eatDelimiter(f, bad, cur, reading, buf, readBackwards, headfoot) ==
    IF cur < 0 \/ cur = bad
    THEN [st |-> "err", cursorAt |-> cur, reading |-> reading]
    ELSE LET eof == cur >= Len(f)
             b   == IF eof THEN buf ELSE f[cur + 1]
             nxt == IF readBackwards THEN cur - 1 ELSE cur + 1
         IN  IF ~headfoot /\ isInByteArr(b, delimiterChars) /\ Len(reading) # 0
             THEN [st |-> "ok", cursorAt |-> nxt, reading |-> reading]
             ELSE IF isInByteArr(b, whiteSpaceChars) /\ Len(reading) = 0
             THEN IF eof /\ ~readBackwards
                  THEN [st |-> "spin", cursorAt |-> nxt, reading |-> reading]
                  ELSE readLoop_eatDelimiter(f, bad, nxt, reading, b, readBackwards,
                                             headfoot)
             ELSE IF isInByteArr(b, whiteSpaceChars)
             THEN [st |-> "ok", cursorAt |-> nxt, reading |-> reading]
             ELSE IF eof
             THEN [st |-> "ok", cursorAt |-> nxt, reading |-> Append(reading, b)]
             ELSE readLoop_eatDelimiter(f, bad, nxt, Append(reading, b), b,
                                        readBackwards, headfoot)

readLoop(f, bad, cur, reading, buf, readBackwards, headfoot) ==
    IF cur < 0 \/ cur = bad
    THEN [st |-> "err", cursorAt |-> cur, reading |-> reading]
    ELSE LET eof == cur >= Len(f)
             b   == IF eof THEN buf ELSE f[cur + 1]
             nxt == IF readBackwards THEN cur - 1 ELSE cur + 1
         IN  IF ~headfoot /\ isInByteArr(b, delimiterChars) /\ Len(reading) # 0
             THEN [st |-> "ok", cursorAt |-> cur, reading |-> reading]
             ELSE IF isInByteArr(b, whiteSpaceChars) /\ Len(reading) = 0
             THEN IF eof /\ ~readBackwards
                  THEN [st |-> "spin", cursorAt |-> nxt, reading |-> reading]
                  ELSE readLoop(f, bad, nxt, reading, b, readBackwards, headfoot)
             ELSE IF isInByteArr(b, whiteSpaceChars)
             THEN [st |-> "ok", cursorAt |-> nxt, reading |-> reading]
             ELSE IF eof
             THEN [st |-> "ok", cursorAt |-> nxt, reading |-> Append(reading, b)]
             ELSE readLoop(f, bad, nxt, Append(reading, b), b, readBackwards, headfoot)

pdfReadAt(f, bad, readOffset, readBackwards, headfoot) ==
    readLoop(f, bad, readOffset, <<>>, 0, readBackwards, headfoot)

pdfSize(f) == Len(f)

(* A call `r.pdfReadAt(r.cursorAt, false, false)` whose error is dropped:  *)
(* the reader afterwards (recentReading keeps its old value on failure).   *)
readDropErr(f, bad, cur, rr) ==
    LET t == pdfReadAt(f, bad, cur, FALSE, FALSE)
    IN  [st            |-> IF t.st = "spin" THEN "spin" ELSE "ok",
         cursorAt      |-> t.cursorAt,
         recentReading |-> IF t.st = "ok" THEN t.reading ELSE rr,
         failed        |-> t.st = "err"]

-----------------------------------------------------------------------------
(* strconv.  Results are [ok, n] (and [ok, n, g] for a float: the decimal  *)
(* n / 10^g with trailing zeros of the fraction removed).                  *)

RECURSIVE digitsVal(_, _)
digitsVal(s, acc) ==
    IF s = <<>> THEN acc ELSE digitsVal(Tail(s), acc * 10 + (Head(s) - 48))

AllDigits(s) == \A i \in 1..Len(s) : IsDigit(s[i])

Atoi(s) ==
    LET signed == Len(s) > 0 /\ s[1] \in {43, 45}
        d      == IF signed THEN Tail(s) ELSE s
    IN  IF Len(d) < 1 \/ ~AllDigits(d)
        THEN [ok |-> FALSE, n |-> 0]
        ELSE [ok |-> TRUE,
              n  |-> IF signed /\ s[1] = 45 THEN 0 - digitsVal(d, 0)
                     ELSE digitsVal(d, 0)]

RECURSIVE normDec(_, _)
normDec(m, g) ==
    IF g > 0 /\ m % 10 = 0 THEN normDec(m \div 10, g - 1) ELSE [n |-> m, g |-> g]

(* ParseFloat on text made of digits and '.' (the inputs here carry no     *)
(* sign, exponent, hex or underscore form).                                *)
ParseFloat(s) ==
    LET dots == {i \in 1..Len(s) : s[i] = 46}
        ds   == SelectSeq(s, IsDigit)
    IN  IF Cardinality(dots) > 1 \/ Len(ds) = 0
           \/ \E i \in 1..Len(s) : ~IsDigit(s[i]) /\ s[i] # 46
        THEN [ok |-> FALSE, n |-> 0, g |-> 0]
        ELSE LET g == IF dots = {} THEN 0 ELSE Len(s) - (CHOOSE i \in dots : TRUE)
                 v == normDec(digitsVal(ds, 0), g)
             IN  [ok |-> TRUE, n |-> v.n, g |-> v.g]

-----------------------------------------------------------------------------
(* PDF values held in interface{}: a Go string (Name), int (Integer),      *)
(* float64 (Real, the decimal n / 10^g), objReference (n = objNum,         *)
(* g = generationNum) and the nil interface value.                         *)

Name(str)     == [t |-> "Name",            s |-> str,  n |-> 0, g |-> 0]
Integer(i)    == [t |-> "Integer",         s |-> <<>>, n |-> i, g |-> 0]
Real(m, e)    == [t |-> "Real",            s |-> <<>>, n |-> m, g |-> e]
ObjRef(o, gn) == [t |-> "ObjectReference", s |-> <<>>, n |-> o, g |-> gn]
Nil           == [t |-> "nil",             s |-> <<>>, n |-> 0, g |-> 0]

-----------------------------------------------------------------------------
(* peek: st, the token returned, and the reader after the call.            *)

(* peek without the restore of lines 380-381. *)
peek_noRestore(f, bad, cur, rr) ==
    LET t == pdfReadAt(f, bad, cur, FALSE, FALSE)
    IN  IF t.st = "ok"
        THEN [st |-> "ok", tok |-> t.reading, cursorAt |-> t.cursorAt,
              recentReading |-> t.reading]
        ELSE [st |-> t.st, tok |-> <<>>, cursorAt |-> t.cursorAt, recentReading |-> rr]

peek(f, bad, cur, rr) ==
    LET t == pdfReadAt(f, bad, cur, FALSE, FALSE)
    IN  IF t.st = "ok"
        THEN [st |-> "ok", tok |-> t.reading, cursorAt |-> cur, recentReading |-> rr]
        ELSE [st |-> t.st, tok |-> <<>>, cursorAt |-> t.cursorAt, recentReading |-> rr]

-----------------------------------------------------------------------------
(* parsePDFObject on the current token rr (never empty when called).       *)
(*   st = "ok"  : returned (val, nil)      st = "err" : returned (nil, e)  *)
(*   st = "spin": a token read inside the call does not return             *)
(* failed: a token read inside the call returned an I/O error;             *)
(* dropped: such an error was discarded and the call went on.              *)

objResult(st, e, val, cur, rr, failed, dropped) ==
    [st |-> st, err |-> e, val |-> val, cursorAt |-> cur, recentReading |-> rr,
     failed |-> failed, dropped |-> dropped]

parseScalar(rr) ==
    IF \E i \in 1..Len(rr) : rr[i] = 46
    THEN LET x == ParseFloat(rr)
         IN  [ok |-> x.ok, val |-> Real(x.n, x.g)]
    ELSE LET x == Atoi(rr)
         IN  [ok |-> x.ok, val |-> Integer(x.n)]

parseReference(f, bad, cur, rr) ==
    LET num == Atoi(rr)
        r1  == readDropErr(f, bad, cur, rr)
        gen == Atoi(r1.recentReading)
        r2  == readDropErr(f, bad, r1.cursorAt, r1.recentReading)
    IN  IF ~num.ok
        THEN objResult("err", "strconv", Nil, cur, rr, FALSE, FALSE)
        ELSE IF r1.st = "spin"
        THEN objResult("spin", "", Nil, r1.cursorAt, rr, FALSE, FALSE)
        ELSE IF ~gen.ok
        THEN objResult("err", "strconv", Nil, r1.cursorAt, r1.recentReading,
                       r1.failed, r1.failed)
        ELSE IF r2.st = "spin"
        THEN objResult("spin", "", Nil, r2.cursorAt, r1.recentReading,
                       r1.failed, r1.failed)
        ELSE objResult("ok", "", ObjRef(num.n, gen.n), r2.cursorAt, r2.recentReading,
                       r1.failed \/ r2.failed, r1.failed \/ r2.failed)

parsePDFObject(f, bad, cur, rr) ==
    IF HasPrefix(rr, sSlash)
    THEN objResult("ok", "", Name(SubSeq(rr, 2, Len(rr))), cur, rr, FALSE, FALSE)
    ELSE IF IsDigit(rr[1])
    THEN LET pk == peek(f, bad, cur, rr)
         IN  IF pk.st = "err"
             THEN objResult("err", "io", Nil, pk.cursorAt, rr, TRUE, FALSE)
             ELSE IF pk.st = "spin"
             THEN objResult("spin", "", Nil, pk.cursorAt, rr, FALSE, FALSE)
             ELSE IF isInByteArr(pk.tok[1], delimiterChars)
             THEN LET x == parseScalar(pk.recentReading)
                  IN  IF x.ok
                      THEN objResult("ok", "", x.val, pk.cursorAt, pk.recentReading,
                                     FALSE, FALSE)
                      ELSE objResult("err", "strconv", Nil, pk.cursorAt,
                                     pk.recentReading, FALSE, FALSE)
             ELSE parseReference(f, bad, pk.cursorAt, pk.recentReading)
    ELSE objResult("ok", "", Nil, cur, rr, FALSE, FALSE)

-----------------------------------------------------------------------------
(* Input files.  A file is                                                 *)
(*     header LF  xref <section> trailer <dictionary> <tail>  LF           *)
(*     <offset> LF <footer> LF                                             *)
(* where the pieces between header and offset are separated by one space   *)
(* (in tight layout: by nothing where the next piece starts a new token).  *)

MaxRows    == 2   \* rows of a generated xref subsection
MaxPairs   == 2   \* key/value pairs of a generated dictionary
MaxOverrun == 3   \* iterations past end-of-file followed in a spinning read

SeqsUpTo(S, n) == UNION {[1..k -> S] : k \in 0..n}

RECURSIVE Flatten(_)
Flatten(ss) == IF ss = <<>> THEN <<>> ELSE Head(ss) \o Flatten(Tail(ss))

RECURSIVE digits(_)
digits(n) == IF n < 10 THEN <<48 + n>> ELSE Append(digits(n \div 10), 48 + (n % 10))

RECURSIVE Join(_, _)
Join(pieces, tight) ==
    IF pieces = <<>> THEN <<>>
    ELSE IF Len(pieces) = 1 THEN pieces[1]
    ELSE LET nxt == pieces[2]
         IN  pieces[1]
             \o (IF tight /\ nxt # <<>> /\ nxt[1] \in delimiterChars THEN <<>> ELSE <<SP>>)
             \o Join(Tail(pieces), tight)

sHdr14   == <<37,80,68,70,45,49,46,52>>   \* "%PDF-1.4"
sHdr10   == <<37,80,68,70,45,49,46,48>>   \* "%PDF-1.0"
sHdr17   == <<37,80,68,70,45,49,46,55>>   \* "%PDF-1.7"
sHdr18   == <<37,80,68,70,45,49,46,56>>   \* "%PDF-1.8"
sHdr20   == <<37,80,68,70,45,50,46,48>>   \* "%PDF-2.0"
sHdrPD   == <<37,80,68>>                  \* "%PD"
sEOF     == <<37,37,69,79,70>>            \* "%%EOF"
sEOX     == <<37,37,69,79,88>>            \* "%%EOX"
sOff0    == <<48,48,48,48,48,48,48,48,48,48>>  \* "0000000000"
sOff17   == <<48,48,48,48,48,48,48,48,49,55>>  \* "0000000017"
sGen0    == <<48,48,48,48,48>>            \* "00000"
sGenMax  == <<54,53,53,51,53>>            \* "65535"
sSize    == <<47,83,105,122,101>>         \* "/Size"
sRoot    == <<47,82,111,111,116>>         \* "/Root"
sType    == <<47,84,121,112,101>>         \* "/Type"
sPages   == <<47,80,97,103,101,115>>      \* "/Pages"
sCatalog == <<47,67,97,116,97,108,111,103>> \* "/Catalog"
sDictOpen  == <<60,60>>                   \* "<<"
sDictClose == <<62,62>>                   \* ">>"
sX       == <<120>>                       \* "x"
sR       == <<82>>                        \* "R"
sTrue    == <<116,114,117,101>>           \* "true"
sArr     == <<91>>                        \* "["
sStr     == <<40,97,41>>                  \* "(a)"
sReal    == <<51,46,49,52>>               \* "3.14"

Rows      == {<<o, g, u>> : o \in {sOff0, sOff17}, g \in {sGen0, sGenMax}, u \in {sF, sN}}
StartNums == {0, 3}

(* A classic single-subsection table: start, count, then count rows.       *)
Section(start, rows) == <<digits(start), digits(Len(rows))>> \o Flatten(rows)

Keys   == {sSize, sRoot}
Values == {<<sCatalog>>, <<digits(2)>>, <<sReal>>, <<digits(1), digits(0), sR>>}
Pairs  == {<<k, v>> : k \in Keys, v \in Values}

RECURSIVE PairPieces(_)
PairPieces(ps) ==
    IF ps = <<>> THEN <<>> ELSE <<Head(ps)[1]>> \o Head(ps)[2] \o PairPieces(Tail(ps))

Dict(ps) == <<sDictOpen>> \o PairPieces(ps) \o <<sDictClose>>

ExampleRows  == <<<<sOff0, sGenMax, sF>>, <<sOff17, sGen0, sN>>>>
ExamplePairs == <<<<sSize, <<digits(2)>>>>, <<sRoot, <<digits(1), digits(0), sR>>>>>>
CatalogPairs == <<<<sType, <<sCatalog>>>>, <<sPages, <<digits(3), digits(0), sR>>>>>>

In(kind, hdr, sect, pairs, dict, tail, off, foot, tight, io) ==
    [kind |-> kind, hdr |-> hdr, sect |-> sect, pairs |-> pairs, dict |-> dict,
     tail |-> tail, off |-> off, foot |-> foot, tight |-> tight, io |-> io]

(* The example with one piece replaced. *)
WithSect(kind, sect)        == In(kind, sHdr14, sect, ExamplePairs, Dict(ExamplePairs),
                                  <<sStartxref>>, "xref", sEOF, FALSE, FALSE)
WithDict(kind, ps, d, tight) == In(kind, sHdr14, Section(0, <<>>), ps, d,
                                  <<sStartxref>>, "xref", sEOF, tight, FALSE)
WithTail(kind, tail)        == In(kind, sHdr14, Section(0, ExampleRows), ExamplePairs,
                                  Dict(ExamplePairs), tail, "xref", sEOF, FALSE, FALSE)

Example == WithSect("table", Section(0, ExampleRows))

Render(i) ==
    LET at   == Len(i.hdr) + 1
        offs == IF i.off = "xref" THEN digits(at)
                ELSE IF i.off = "shifted" THEN digits(at + 1)
                ELSE IF i.off = "zero" THEN digits(0)
                ELSE sX
    IN  IF i.kind = "raw" THEN i.hdr ELSE
        i.hdr \o <<LF>>
        \o Join(<<sXref>> \o i.sect \o <<sTrailer>> \o i.dict \o i.tail, i.tight)
        \o <<LF>> \o offs \o <<LF>> \o i.foot \o <<LF>>


TableInputs == {WithSect("table", Section(st, rows)) :
                   st \in StartNums, rows \in SeqsUpTo(Rows, MaxRows)}

DictInputs ==
    {WithDict("dict", ps, Dict(ps), tight) :
         ps \in SeqsUpTo(Pairs, MaxPairs) \cup {CatalogPairs}, tight \in BOOLEAN}

BadItems == {<<>>, <<sArr>>, <<sStr>>, <<sTrue>>, <<sSize>>, <<digits(2)>>,
             <<digits(1), digits(0), sR>>, <<sSize, sArr>>, <<sSize, sTrue>>,
             <<sSize, sStr>>, <<sSize, sStartxref>>}

Closers == {<<sDictClose>>, <<sGT>>, <<>>}

BadDictInputs ==
    {WithDict("baddict", ps, <<sDictOpen>> \o PairPieces(ps) \o bad \o cl, FALSE) :
         ps \in {<<>>, <<<<sSize, <<digits(2)>>>>>>}, bad \in BadItems, cl \in Closers}
    \cup {WithDict("baddict", <<>>, d, FALSE) : d \in {<<>>, <<sLT>>, <<sX>>}}

(* A tail holding a second dictionary, two tokens after the first. *)
SecondDicts == {CatalogPairs, <<<<sSize, <<sCatalog>>>>>>}

TwoDictTail(ps) == <<sX, sX>> \o Dict(ps) \o <<sStartxref>>

Tails == {<<>>, <<sX, sStartxref>>, <<sX, sX, sStartxref>>}
         \cup {TwoDictTail(ps) : ps \in SecondDicts}

TailInputs == {WithTail("tail", tl) : tl \in Tails}

Headers == {sHdr10, sHdr17, sHdr18, sHdr20, sHdrPD, sPDFHeader, sX, <<>>}

HeaderInputs ==
    {In("header", h, Section(0, ExampleRows), ExamplePairs, Dict(ExamplePairs),
        <<sStartxref>>, off, ft, FALSE, FALSE) :
         h \in Headers \cup {sHdr14}, off \in {"xref", "shifted", "zero", "junk"},
         ft \in {sEOF, sEOX}}

SectRows == {<<sOff0, sGenMax, sF>>, <<sOff17, sGen0, sN>>}

SectInputs ==
    UNION {{WithSect("sect", SubSeq(w, 1, k) \o j) :
                k \in 0..Len(w), j \in {<<>>, <<sX>>, <<sTrailer>>}} :
           w \in {Section(0, rows) : rows \in SeqsUpTo(SectRows, MaxRows)}}
    \cup {WithSect("sect", Section(0, <<r>>) \o Section(3, <<r>>)) : r \in SectRows}

RawInputs ==
    {In("raw", h, <<>>, <<>>, <<>>, <<>>, "xref", <<>>, FALSE, FALSE) :
         h \in {<<>>, <<LF>>, sHdr14, sPDFHeader, sHdr14 \o <<LF>> \o sEOF}}

IOInputs == {[Example EXCEPT !.kind = "io", !.io = TRUE]}

(* The keyword "trailer" once more after the trailer dictionary, before a  *)
(* second dictionary or before "startxref".                                *)
RetrailInputs ==
    {WithTail("retrail", <<sX, sTrailer>> \o tl) :
         tl \in {Dict(CatalogPairs) \o <<sStartxref>>, <<sStartxref>>}}

Inputs == TableInputs \cup DictInputs \cup BadDictInputs \cup TailInputs
          \cup HeaderInputs \cup SectInputs \cup RawInputs \cup IOInputs
          \cup RetrailInputs

BadOffsets(i) == IF i.io THEN 0..(Len(Render(i)) - 1) ELSE {-1}

-----------------------------------------------------------------------------
(* State after construction: `var reader pdfReader` in Load, nothing read. *)

EmptyDict == [k \in {} |-> Nil]

ZeroRow == [offset |-> 0, generationNumber |-> 0, objNum |-> 0, inUse |-> FALSE]

ZeroXref == [objStart |-> 0, objEnd |-> 0, objTable |-> <<>>, trailer |-> "nil"]

Init ==
    /\ input \in Inputs
    /\ file = Render(input)
    /\ badAt \in BadOffsets(input)
    /\ fileOpen = FALSE
    /\ recentReading = <<>>
    /\ cursorAt = 0
    /\ recentDict = EmptyDict
    /\ pdfVersion = 0
    /\ xrefOffset = 0
    /\ xrefTable = ZeroXref
    /\ part = "objNumStart"
    /\ objRow = ZeroRow
    /\ objNum = 0
    /\ atKey = TRUE
    /\ cK = <<>>
    /\ pc = "Load"
    /\ err = ""
    /\ hist = [xrefStarted |-> FALSE, ioFailed |-> FALSE, dicts |-> 0,
               yield |-> EmptyDict, yieldAt |-> 0]

-----------------------------------------------------------------------------
(* Load, lines 36-57.  Control locations:                                  *)
(*   "Load"            before reader.openFile                              *)
(*   "parseXRefTable"  before reader.parseXRefTable                        *)
(*   "xrefLoop"        at the head of the for loop of parseXRefTable       *)
(*   "dictLoop"        at the head of the for loop of parsePDFDict         *)
(*   "buildFpdf", "closeFile"   before those calls                         *)
(*   "returned"        Load has returned (err = "" : f, nil)               *)
(*   "panicked"        a run-time panic unwound the call                   *)
(*   "pdfReadAt"       inside a read that spins past end-of-file           *)

Reader(p, e, cur, rr) == [pc |-> p, err |-> e, cursorAt |-> cur, recentReading |-> rr]

(* openFile after os.Open succeeded, lines 95-124: the reader on leaving   *)
(* the function, with the version byte and the xref offset.                *)
openFileBody(f, bad) ==
    LET h  == pdfReadAt(f, bad, 0, FALSE, TRUE)
        ft == pdfReadAt(f, bad, pdfSize(f), TRUE, TRUE)
        xo == pdfReadAt(f, bad, ft.cursorAt, TRUE, FALSE)
        rv == reverseByteSlice(xo.reading)
        n  == Atoi(rv)
        R(p, e, cur, rr, ver, n0) ==
            Reader(p, e, cur, rr) @@ [pdfVersion |-> ver, xrefOffset |-> n0]
    IN  IF h.st = "err" THEN R("returned", "io", h.cursorAt, <<>>, 0, 0)
        ELSE IF h.st = "spin" THEN R("pdfReadAt", "", h.cursorAt, <<>>, 0, 0)
        ELSE IF ~HasPrefix(h.reading, sPDFHeader)
        THEN R("returned", "malformed PDF header", h.cursorAt, h.reading, 0, 0)
        ELSE IF Len(h.reading) < 8
        THEN R("panicked", "", h.cursorAt, h.reading, 0, 0)
        ELSE IF h.reading[8] < 48 \/ h.reading[8] > 55
        THEN R("returned", "version incompatible with this reader",
               h.cursorAt, h.reading, h.reading[8], 0)
        ELSE IF ft.st = "err"
        THEN R("returned", "io", ft.cursorAt, h.reading, h.reading[8], 0)
        ELSE IF ~HasPrefix(ft.reading, sFooter)
        THEN R("returned", "malformed PDF footer", ft.cursorAt, ft.reading, h.reading[8], 0)
        ELSE IF xo.st = "err"
        THEN R("returned", "io", xo.cursorAt, ft.reading, h.reading[8], 0)
        ELSE IF ~n.ok
        THEN R("returned", "strconv", xo.cursorAt, rv, h.reading[8], 0)
        ELSE R("parseXRefTable", "", xo.cursorAt, rv, h.reading[8], n.n)

openFile ==
    /\ pc = "Load"
    /\ \E opened \in BOOLEAN :
         IF ~opened
         THEN /\ pc' = "returned"
              /\ err' = "open"
              /\ UNCHANGED <<fileOpen, recentReading, cursorAt, pdfVersion, xrefOffset>>
         ELSE LET o == openFileBody(file, badAt)
              IN  /\ fileOpen' = TRUE
                  /\ pc' = o.pc
                  /\ err' = o.err
                  /\ cursorAt' = o.cursorAt
                  /\ recentReading' = o.recentReading
                  /\ pdfVersion' = o.pdfVersion
                  /\ xrefOffset' = o.xrefOffset
    /\ recentDict' = EmptyDict
    /\ UNCHANGED <<file, badAt, input, xrefTable, part, objRow, objNum, atKey, cK, hist>>

(* A read that does not return: one more iteration of its loop.            *)
pdfReadAtPastEOF ==
    /\ pc = "pdfReadAt"
    /\ cursorAt < Len(file) + MaxOverrun
    /\ cursorAt' = cursorAt + 1
    /\ UNCHANGED <<file, badAt, input, fileOpen, recentReading, recentDict, pdfVersion,
                   xrefOffset, xrefTable, part, objRow, objNum, atKey, cK, pc, err, hist>>

buildFpdf ==
    /\ pc = "buildFpdf"
    /\ pc' = "closeFile"
    /\ UNCHANGED <<file, badAt, input, fileOpen, recentReading, cursorAt, recentDict,
                   pdfVersion, xrefOffset, xrefTable, part, objRow, objNum, atKey, cK,
                   err, hist>>

closeFile ==
    /\ pc = "closeFile"
    /\ fileOpen' = FALSE
    /\ \E closed \in BOOLEAN : err' = IF closed THEN "" ELSE "close"
    /\ pc' = "returned"
    /\ UNCHANGED <<file, badAt, input, recentReading, cursorAt, recentDict, pdfVersion,
                   xrefOffset, xrefTable, part, objRow, objNum, atKey, cK, hist>>

-----------------------------------------------------------------------------
(* parseXRefTable, lines 219-294.                                          *)

frame == <<file, badAt, input, fileOpen, pdfVersion, xrefOffset>>

(* Lines 220-231.  The comparison with "xref" at line 225 builds an error  *)
(* value and drops it: nothing is returned there.                          *)
parseXRefTable ==
    /\ pc = "parseXRefTable"
    /\ LET t == pdfReadAt(file, badAt, xrefOffset, FALSE, FALSE)
       IN  /\ cursorAt' = t.cursorAt
           /\ recentReading' = IF t.st = "ok" THEN t.reading ELSE recentReading
           /\ pc' = IF t.st = "ok" THEN "xrefLoop"
                    ELSE IF t.st = "err" THEN "returned" ELSE "pdfReadAt"
           /\ err' = IF t.st = "err" THEN "io" ELSE ""
           /\ hist' = [hist EXCEPT !.xrefStarted = TRUE, !.ioFailed = (t.st = "err")]
    /\ part' = "objNumStart"
    /\ objRow' = ZeroRow
    /\ objNum' = 0
    /\ UNCHANGED <<frame, recentDict, xrefTable, atKey, cK>>

(* Line 233: the loop ends, and parseXRefTable returns nil, when the       *)
(* current token is "startxref".                                           *)
xrefLoopExit ==
    /\ pc = "xrefLoop"
    /\ recentReading = sStartxref
    /\ pc' = "buildFpdf"
    /\ UNCHANGED <<frame, recentReading, cursorAt, recentDict, xrefTable, part, objRow,
                   objNum, atKey, cK, err, hist>>

(* Line 234: the token read at the head of an iteration. *)
loopTok == pdfReadAt(file, badAt, cursorAt, FALSE, FALSE)

(* partNow without lines 238-240: the token "trailer" is not looked at. *)
partNow_keepPart == part

(* Lines 238-240: the part the switch dispatches on. *)
partNow == IF loopTok.reading = sTrailer THEN "trailerPart" ELSE part

(* Lines 234-237: the read fails (returned) or does not return. *)
xrefReadFail ==
    /\ pc = "xrefLoop"
    /\ recentReading # sStartxref
    /\ loopTok.st # "ok"
    /\ cursorAt' = loopTok.cursorAt
    /\ pc' = IF loopTok.st = "err" THEN "returned" ELSE "pdfReadAt"
    /\ err' = IF loopTok.st = "err" THEN "io" ELSE err
    /\ hist' = [hist EXCEPT !.ioFailed = @ \/ loopTok.st = "err"]
    /\ UNCHANGED <<frame, recentReading, recentDict, xrefTable, part, objRow, objNum,
                   atKey, cK>>

xrefCase(p) ==
    /\ pc = "xrefLoop"
    /\ recentReading # sStartxref
    /\ loopTok.st = "ok"
    /\ partNow = p
    /\ cursorAt' = loopTok.cursorAt
    /\ recentReading' = loopTok.reading

strconvFail ==
    /\ pc' = "returned"
    /\ err' = "strconv"

(* caseObjNumStart with the running object number left at zero. *)
caseObjNumStart_numFromZero ==
    /\ xrefCase("objNumStart")
    /\ LET start == Atoi(loopTok.reading)
       IN  IF ~start.ok
           THEN strconvFail /\ UNCHANGED <<xrefTable, objNum, part>>
           ELSE /\ xrefTable' = [xrefTable EXCEPT !.objStart = start.n]
                /\ objNum' = 0
                /\ part' = "objNumEnd"
                /\ UNCHANGED <<pc, err>>
    /\ UNCHANGED <<frame, recentDict, objRow, atKey, cK, hist>>

caseObjNumStart ==
    /\ xrefCase("objNumStart")
    /\ LET start == Atoi(loopTok.reading)
       IN  IF ~start.ok
           THEN strconvFail /\ UNCHANGED <<xrefTable, objNum, part>>
           ELSE /\ xrefTable' = [xrefTable EXCEPT !.objStart = start.n]
                /\ objNum' = start.n
                /\ part' = "objNumEnd"
                /\ UNCHANGED <<pc, err>>
    /\ UNCHANGED <<frame, recentDict, objRow, atKey, cK, hist>>

caseObjNumEnd ==
    /\ xrefCase("objNumEnd")
    /\ LET end == Atoi(loopTok.reading)
       IN  IF ~end.ok
           THEN strconvFail /\ UNCHANGED <<xrefTable, part>>
           ELSE /\ xrefTable' = [xrefTable EXCEPT !.objEnd = end.n]
                /\ part' = "objTabCol1"
                /\ UNCHANGED <<pc, err>>
    /\ UNCHANGED <<frame, recentDict, objRow, objNum, atKey, cK, hist>>

(* caseObjTabCol1 with the running object number never advanced. *)
caseObjTabCol1_sameNum ==
    /\ xrefCase("objTabCol1")
    /\ objNum' = objNum
    /\ LET offset == Atoi(loopTok.reading)
       IN  IF ~offset.ok
           THEN /\ strconvFail
                /\ objRow' = [ZeroRow EXCEPT !.objNum = objNum]
                /\ UNCHANGED part
           ELSE /\ objRow' = [ZeroRow EXCEPT !.objNum = objNum, !.offset = offset.n]
                /\ part' = "objTabCol2"
                /\ UNCHANGED <<pc, err>>
    /\ UNCHANGED <<frame, recentDict, xrefTable, atKey, cK, hist>>

caseObjTabCol1 ==
    /\ xrefCase("objTabCol1")
    /\ objNum' = objNum + 1
    /\ LET offset == Atoi(loopTok.reading)
       IN  IF ~offset.ok
           THEN /\ strconvFail
                /\ objRow' = [ZeroRow EXCEPT !.objNum = objNum]
                /\ UNCHANGED part
           ELSE /\ objRow' = [ZeroRow EXCEPT !.objNum = objNum, !.offset = offset.n]
                /\ part' = "objTabCol2"
                /\ UNCHANGED <<pc, err>>
    /\ UNCHANGED <<frame, recentDict, xrefTable, atKey, cK, hist>>

caseObjTabCol2 ==
    /\ xrefCase("objTabCol2")
    /\ LET genNum == Atoi(loopTok.reading)
       IN  IF ~genNum.ok
           THEN strconvFail /\ UNCHANGED <<objRow, part>>
           ELSE /\ objRow' = [objRow EXCEPT !.generationNumber = genNum.n]
                /\ part' = "objTabCol3"
                /\ UNCHANGED <<pc, err>>
    /\ UNCHANGED <<frame, recentDict, xrefTable, objNum, atKey, cK, hist>>

caseObjTabCol3 ==
    /\ xrefCase("objTabCol3")
    /\ IF loopTok.reading \in {sF, sN}
       THEN /\ objRow' = [objRow EXCEPT !.inUse = (loopTok.reading = sN)]
            /\ xrefTable' = [xrefTable EXCEPT !.objTable = Append(@, objRow')]
            /\ part' = "objTabCol1"
            /\ UNCHANGED <<pc, err>>
       ELSE /\ pc' = "returned"
            /\ err' = "malformed xref table third col can be only f or n"
            /\ UNCHANGED <<objRow, xrefTable, part>>
    /\ UNCHANGED <<frame, recentDict, objNum, atKey, cK, hist>>

-----------------------------------------------------------------------------
(* parsePDFDict, lines 296-334.  No read in it looks at its error.         *)

(* Lines 297-308, entered with reader (cur, rr): the two "<" tokens and    *)
(* the first token of the body.                                            *)
dictHead(f, bad, cur, rr) ==
    LET r1 == readDropErr(f, bad, cur, rr)
        r2 == readDropErr(f, bad, r1.cursorAt, r1.recentReading)
        D(p, e, c, t, fl) == Reader(p, e, c, t) @@ [failed |-> fl]
    IN  IF ~HasPrefix(rr, sLT)
        THEN D("returned", "expected pdf dictionary", cur, rr, FALSE)
        ELSE IF r1.st = "spin"
        THEN D("pdfReadAt", "", r1.cursorAt, rr, FALSE)
        ELSE IF ~HasPrefix(r1.recentReading, sLT)
        THEN D("returned", "expected pdf dictionary", r1.cursorAt, r1.recentReading,
               r1.failed)
        ELSE IF r2.st = "spin"
        THEN D("pdfReadAt", "", r2.cursorAt, r1.recentReading, r1.failed)
        ELSE D("dictLoop", "", r2.cursorAt, r2.recentReading, r1.failed \/ r2.failed)

(* case trailerPart, lines 284-286, up to the head of the loop of          *)
(* parsePDFDict.                                                           *)
caseTrailerPart ==
    /\ pc = "xrefLoop"
    /\ recentReading # sStartxref
    /\ loopTok.st = "ok"
    /\ partNow = "trailerPart"
    /\ part' = "trailerPart"
    /\ LET r0 == readDropErr(file, badAt, loopTok.cursorAt, loopTok.reading)
           d  == dictHead(file, badAt, r0.cursorAt, r0.recentReading)
       IN  IF r0.st = "spin"
           THEN /\ pc' = "pdfReadAt"
                /\ cursorAt' = r0.cursorAt
                /\ recentReading' = loopTok.reading
                /\ UNCHANGED <<err, hist>>
           ELSE /\ pc' = d.pc
                /\ err' = d.err
                /\ cursorAt' = d.cursorAt
                /\ recentReading' = d.recentReading
                /\ hist' = [hist EXCEPT !.ioFailed = @ \/ r0.failed \/ d.failed]
    /\ atKey' = TRUE
    /\ cK' = <<>>
    /\ UNCHANGED <<frame, recentDict, xrefTable, objRow, objNum>>

(* The object parsed at the head of an iteration, lines 311 and 318. *)
dictObj == parsePDFObject(file, badAt, cursorAt, recentReading)

(* Line 325, after the object. *)
dictNext == readDropErr(file, badAt, dictObj.cursorAt, dictObj.recentReading)

(* An iteration whose parsePDFObject fails (lines 312-314, 319-321) or     *)
(* does not return.                                                        *)
dictObjFail ==
    /\ pc = "dictLoop"
    /\ ~HasSuffix(recentReading, sGT)
    /\ dictObj.st # "ok"
    /\ pc' = IF dictObj.st = "err" THEN "returned" ELSE "pdfReadAt"
    /\ err' = dictObj.err
    /\ cursorAt' = dictObj.cursorAt
    /\ recentReading' = dictObj.recentReading
    /\ hist' = [hist EXCEPT !.ioFailed = @ \/ dictObj.failed]
    /\ UNCHANGED <<frame, recentDict, xrefTable, part, objRow, objNum, atKey, cK>>

(* Lines 310-316 and 325: a key.  key.(string) panics unless the value is  *)
(* a Go string.                                                            *)
dictKey ==
    /\ pc = "dictLoop"
    /\ ~HasSuffix(recentReading, sGT)
    /\ atKey
    /\ dictObj.st = "ok"
    /\ IF dictObj.val.t # "Name"
       THEN /\ pc' = "panicked"
            /\ cursorAt' = dictObj.cursorAt
            /\ recentReading' = dictObj.recentReading
            /\ hist' = [hist EXCEPT !.ioFailed = @ \/ dictObj.failed]
            /\ UNCHANGED <<cK, atKey>>
       ELSE /\ cK' = dictObj.val.s
            /\ atKey' = FALSE
            /\ pc' = IF dictNext.st = "spin" THEN "pdfReadAt" ELSE "dictLoop"
            /\ cursorAt' = dictNext.cursorAt
            /\ recentReading' = dictNext.recentReading
            /\ hist' = [hist EXCEPT !.ioFailed = @ \/ dictObj.failed \/ dictNext.failed]
    /\ UNCHANGED <<frame, recentDict, xrefTable, part, objRow, objNum, err>>

(* Lines 317-325: a value, stored under the current key. *)
dictVal ==
    /\ pc = "dictLoop"
    /\ ~HasSuffix(recentReading, sGT)
    /\ ~atKey
    /\ dictObj.st = "ok"
    /\ recentDict' = [k \in DOMAIN recentDict \cup {cK} |->
                          IF k = cK THEN dictObj.val ELSE recentDict[k]]
    /\ atKey' = TRUE
    /\ pc' = IF dictNext.st = "spin" THEN "pdfReadAt" ELSE "dictLoop"
    /\ cursorAt' = dictNext.cursorAt
    /\ recentReading' = dictNext.recentReading
    /\ hist' = [hist EXCEPT !.ioFailed = @ \/ dictObj.failed \/ dictNext.failed]
    /\ UNCHANGED <<frame, xrefTable, part, objRow, objNum, cK, err>>

(* Lines 328-333 and, back in parseXRefTable, line 290: trailer refers to  *)
(* the one map behind recentDict.                                          *)
dictEnd ==
    /\ pc = "dictLoop"
    /\ HasSuffix(recentReading, sGT)
    /\ LET r1 == readDropErr(file, badAt, cursorAt, recentReading)
           r2 == readDropErr(file, badAt, r1.cursorAt, r1.recentReading)
       IN  IF r1.st = "spin"
           THEN /\ pc' = "pdfReadAt"
                /\ cursorAt' = r1.cursorAt
                /\ UNCHANGED <<recentReading, err, xrefTable, hist>>
           ELSE IF ~HasPrefix(r1.recentReading, sGT)
           THEN /\ pc' = "returned"
                /\ err' = "pdf dictionary ending malformed"
                /\ cursorAt' = r1.cursorAt
                /\ recentReading' = r1.recentReading
                /\ hist' = [hist EXCEPT !.ioFailed = @ \/ r1.failed]
                /\ UNCHANGED xrefTable
           ELSE IF r2.st = "spin"
           THEN /\ pc' = "pdfReadAt"
                /\ cursorAt' = r2.cursorAt
                /\ recentReading' = r1.recentReading
                /\ hist' = [hist EXCEPT !.ioFailed = @ \/ r1.failed]
                /\ UNCHANGED <<err, xrefTable>>
           ELSE /\ pc' = "xrefLoop"
                /\ cursorAt' = r2.cursorAt
                /\ recentReading' = r2.recentReading
                /\ xrefTable' = [xrefTable EXCEPT !.trailer = "recentDict"]
                /\ hist' = [hist EXCEPT !.ioFailed = @ \/ r1.failed \/ r2.failed,
                                        !.dicts = @ + 1,
                                        !.yield = recentDict,
                                        !.yieldAt = r2.cursorAt]
                /\ UNCHANGED err
    /\ UNCHANGED <<frame, recentDict, part, objRow, objNum, atKey, cK>>

(* The map xrefTable.trailer refers to. *)
trailer == IF xrefTable.trailer = "recentDict" THEN recentDict ELSE EmptyDict

-----------------------------------------------------------------------------
Next ==
    \/ openFile
    \/ parseXRefTable
    \/ xrefLoopExit
    \/ xrefReadFail
    \/ caseObjNumStart
    \/ caseObjNumEnd
    \/ caseObjTabCol1
    \/ caseObjTabCol2
    \/ caseObjTabCol3
    \/ caseTrailerPart
    \/ dictObjFail
    \/ dictKey
    \/ dictVal
    \/ dictEnd
    \/ buildFpdf
    \/ closeFile
    \/ pdfReadAtPastEOF

Spec == Init /\ [][Next]_vars

TypeOK ==
    /\ pc \in {"Load", "parseXRefTable", "xrefLoop", "dictLoop", "buildFpdf",
               "closeFile", "returned", "panicked", "pdfReadAt"}
    /\ fileOpen \in BOOLEAN
    /\ cursorAt \in Int

-----------------------------------------------------------------------------
(* The cursor and the object parser on their own: any byte stream over a   *)
(* small alphabet, read token by token from offset 0, with peek and        *)
(* parsePDFObject applied to the reader after any of the reads.            *)
(* hist keeps the last call: its name, the reader before it, its outcome;  *)
(* toks lists the tokens returned so far while every call was a forward    *)
(* pdfReadAt (pure), ws and delim are the answers of isInByteArr.          *)

MaxStream == 4   \* length of a generated byte stream

Alphabet == {SP, 47, 49, 46, 82}   \* space / 1 . R

Streams == SeqsUpTo(Alphabet, MaxStream)
           \cup {<<49,50,32,48,32,82>>,     \* "12 0 R"
                 <<51,55,47>>,              \* "37/"
                 <<51,46,49,52,47>>,        \* "3.14/"
                 <<91,49,93>>,              \* "[1]"
                 <<40,97,41>>,              \* "(a)"
                 <<60,60,32,62,62>>,        \* "<< >>"
                 <<116,114,117,101,32>>,    \* "true "
                 <<49,50,32,48,32,111,98,106>>}   \* "12 0 obj"

Call(op, st, e, tok, val) ==
    [op |-> op, st |-> st, err |-> e, tok |-> tok, val |-> val,
     cursorAt |-> cursorAt, recentReading |-> recentReading,
     pure |-> hist.pure /\ op = "pdfReadAt",
     toks |-> IF hist.pure /\ op = "pdfReadAt"
              THEN (IF st = "ok" THEN Append(hist.toks, tok) ELSE hist.toks)
              ELSE <<>>,
     ws |-> FALSE, delim |-> FALSE]

InitCursor ==
    /\ input = [kind |-> "stream"]
    /\ file \in Streams
    /\ badAt \in -1..(Len(file) - 1)
    /\ fileOpen = TRUE
    /\ recentReading = <<>>
    /\ cursorAt = 0
    /\ recentDict = EmptyDict
    /\ pdfVersion = 0
    /\ xrefOffset = 0
    /\ xrefTable = ZeroXref
    /\ part = "objNumStart"
    /\ objRow = ZeroRow
    /\ objNum = 0
    /\ atKey = TRUE
    /\ cK = <<>>
    /\ pc = "cursor"
    /\ err = ""
    /\ hist = [op |-> "", st |-> "", err |-> "", tok |-> <<>>, val |-> Nil,
               cursorAt |-> 0, recentReading |-> <<>>,
               pure |-> TRUE, toks |-> <<>>, ws |-> FALSE, delim |-> FALSE]

rest == <<file, badAt, input, fileOpen, recentDict, pdfVersion, xrefOffset, xrefTable,
          part, objRow, objNum, atKey, cK, err>>

(* r.pdfReadAt(r.cursorAt, false, false) *)
readToken ==
    /\ pc = "cursor"
    /\ LET t == pdfReadAt(file, badAt, cursorAt, FALSE, FALSE)
       IN  /\ cursorAt' = t.cursorAt
           /\ recentReading' = IF t.st = "ok" THEN t.reading ELSE recentReading
           /\ pc' = IF t.st = "spin" THEN "pdfReadAt" ELSE "cursor"
           /\ hist' = Call("pdfReadAt", t.st, IF t.st = "err" THEN "io" ELSE "",
                           IF t.st = "ok" THEN t.reading ELSE <<>>, Nil)
    /\ UNCHANGED rest

(* r.peek() *)
peekToken ==
    /\ pc = "cursor"
    /\ recentReading # <<>>
    /\ LET pk == peek(file, badAt, cursorAt, recentReading)
       IN  /\ cursorAt' = pk.cursorAt
           /\ recentReading' = pk.recentReading
           /\ pc' = IF pk.st = "spin" THEN "pdfReadAt" ELSE "cursor"
           /\ hist' = Call("peek", pk.st, IF pk.st = "err" THEN "io" ELSE "", pk.tok, Nil)
    /\ UNCHANGED rest

(* r.parsePDFObject() *)
parseObject ==
    /\ pc = "cursor"
    /\ recentReading # <<>>
    /\ LET o == parsePDFObject(file, badAt, cursorAt, recentReading)
       IN  /\ cursorAt' = o.cursorAt
           /\ recentReading' = o.recentReading
           /\ pc' = IF o.st = "spin" THEN "pdfReadAt" ELSE "cursor"
           /\ hist' = Call("parsePDFObject", o.st, o.err, <<>>, o.val)
    /\ UNCHANGED rest

(* r.pdfReadAt(r.cursorAt, true, headfoot): the backward reads of openFile, *)
(* lines 106 and 112.                                                      *)
readTokenBack ==
    /\ pc = "cursor"
    /\ \E headfoot \in BOOLEAN :
          LET t == pdfReadAt(file, badAt, cursorAt, TRUE, headfoot)
          IN  /\ cursorAt' = t.cursorAt
              /\ recentReading' = IF t.st = "ok" THEN t.reading ELSE recentReading
              /\ hist' = Call(IF headfoot THEN "pdfReadAt back headfoot"
                                          ELSE "pdfReadAt back",
                              t.st, IF t.st = "err" THEN "io" ELSE "",
                              IF t.st = "ok" THEN t.reading ELSE <<>>, Nil)
    /\ UNCHANGED pc
    /\ UNCHANGED rest

(* r.pdfReadAt(r.cursorAt, false, true): the header read of openFile, line 95. *)
readHeaderToken ==
    /\ pc = "cursor"
    /\ LET t == pdfReadAt(file, badAt, cursorAt, FALSE, TRUE)
       IN  /\ cursorAt' = t.cursorAt
           /\ recentReading' = IF t.st = "ok" THEN t.reading ELSE recentReading
           /\ pc' = IF t.st = "spin" THEN "pdfReadAt" ELSE "cursor"
           /\ hist' = Call("pdfReadAt headfoot", t.st, IF t.st = "err" THEN "io" ELSE "",
                           IF t.st = "ok" THEN t.reading ELSE <<>>, Nil)
    /\ UNCHANGED rest

NextCursor ==
    \/ readToken
    \/ peekToken
    \/ parseObject
    \/ readTokenBack
    \/ readHeaderToken
    \/ pdfReadAtPastEOF

SpecCursor == InitCursor /\ [][NextCursor]_vars

-----------------------------------------------------------------------------
(* Properties.                                                             *)

(* What the text of an input denotes, written down without the parser.     *)
NumberOf(tok) ==
    IF tok = sOff17 THEN 17
    ELSE IF tok = sGenMax THEN 65535
    ELSE IF tok \in {sOff0, sGen0} THEN 0
    ELSE CHOOSE k \in 0..9 : tok = <<48 + k>>

ValueOf(v) ==
    IF Len(v) = 3 THEN ObjRef(NumberOf(v[1]), NumberOf(v[2]))
    ELSE IF v[1] = sReal THEN Real(314, 2)
    ELSE IF v[1][1] = 47 THEN Name(Tail(v[1]))
    ELSE Integer(NumberOf(v[1]))

KeyOf(k) == Tail(k)

(* The mapping a dictionary text denotes (a later pair overrides). *)
Denoted(ps) ==
    [k \in {KeyOf(ps[i][1]) : i \in 1..Len(ps)} |->
        LET last == CHOOSE i \in 1..Len(ps) :
                        /\ KeyOf(ps[i][1]) = k
                        /\ \A j \in (i + 1)..Len(ps) : KeyOf(ps[j][1]) # k
        IN  ValueOf(ps[last][2])]

Opened == pc # "Load" /\ err # "open"

Returned == pc = "returned"

\* C1: whenever Load has returned, on any path, a handle it opened is closed.
C1_HandleClosedOnReturn == Returned => ~fileOpen


\* C2: after peek() has returned, cursorAt and recentReading are what they
\* were before the call.
C2_PeekLeavesCursor ==
    (hist.op = "peek" /\ hist.st # "spin")
        => (cursorAt = hist.cursorAt /\ recentReading = hist.recentReading)

(* The first token of the file, read in header mode from offset 0. *)
headerTok == pdfReadAt(file, badAt, 0, FALSE, TRUE)

HeaderMatches(tok) ==
    /\ HasPrefix(tok, sPDFHeader)
    /\ Len(tok) >= 8
    /\ 48 <= tok[8] /\ tok[8] <= 55

FormatErrors == {"malformed PDF header", "version incompatible with this reader"}

\* C3: when the first token does not match %PDF-1.[0-7], Load returns a format
\* error and the xref table parser is never started.
C3_BadHeaderIsFormatError ==
    (Opened /\ headerTok.st = "ok" /\ ~HeaderMatches(headerTok.reading))
        => (Returned /\ err \in FormatErrors /\ ~hist.xrefStarted)

(* The token at xrefOffset. *)
xrefTok == pdfReadAt(file, badAt, xrefOffset, FALSE, FALSE)

\* C4: when the token at xrefOffset is not the keyword xref, parseXRefTable
\* returns an error and produces no xref entry and no trailer.
C4_BadXrefPlacementRejected ==
    (Returned /\ hist.xrefStarted /\ xrefTok.st = "ok" /\ xrefTok.reading # sXref)
        => (err \notin {"", "close"} /\ xrefTable = ZeroXref)

(* Inputs whose dictionary is opened by << and never closed by >>. *)
Unclosed(i) ==
    /\ i.kind = "baddict"
    /\ i.dict # <<>>
    /\ Head(i.dict) = sDictOpen
    /\ \A k \in 1..Len(i.dict) : i.dict[k] # sDictClose

ParseErrors == {"strconv", "expected pdf dictionary", "pdf dictionary ending malformed"}

\* C5: a dictionary with no closing >> makes the parse return a parse error:
\* the call neither is left abnormally nor scans on past the end of the file.
C5_UnclosedDictIsParseError ==
    (Unclosed(input) /\ hist.xrefStarted)
        => /\ pc \notin {"panicked", "pdfReadAt", "buildFpdf", "closeFile"}
           /\ Returned => err \in ParseErrors

\* C6: once a token read of the xref, dictionary or object parser has failed
\* with an I/O error, the parse has returned that error.
C6_IOErrorPropagated == hist.ioFailed => (Returned /\ err = "io")


(* The table a well-formed single-subsection input denotes. *)
StartOf(i) == CHOOSE st \in StartNums : digits(st) = i.sect[1]

CountOf(i) == (Len(i.sect) - 2) \div 3

RowOf(i, k) ==
    [objNum           |-> StartOf(i) + k,
     offset           |-> NumberOf(i.sect[3 + 3 * k]),
     generationNumber |-> NumberOf(i.sect[4 + 3 * k]),
     inUse            |-> i.sect[5 + 3 * k] = sN]

TableDone == pc \in {"buildFpdf", "closeFile", "returned"}

\* C7: on a well-formed single-subsection table `xref S C rows trailer << dict >>
\* startxref` parseXRefTable succeeds with objStart = S, objEnd = C, one entry
\* per row in file order (objNum = S + i, the row's offset and generation,
\* inUse iff the flag is n) and the trailer equal to the dictionary; the
\* example of the specification gives entries 0 (free) and 1 (offset 17, in
\* use) and the trailer Size -> 2, Root -> reference 1 0.
C7_WellFormedTableParsed ==
    (input.kind \in {"table", "dict"} /\ Opened) =>
        /\ pc \notin {"panicked", "pdfReadAt"}
        /\ Returned => err \in {"", "close"}
        /\ TableDone =>
              /\ xrefTable.objStart = StartOf(input)
              /\ xrefTable.objEnd = NumberOf(input.sect[2])
              /\ xrefTable.objTable = [k \in 1..CountOf(input) |-> RowOf(input, k - 1)]
              /\ trailer = Denoted(input.pairs)
        /\ (TableDone /\ input = Example) =>
              /\ xrefTable.objStart = 0 /\ xrefTable.objEnd = 2
              /\ xrefTable.objTable =
                    << [objNum |-> 0, offset |-> 0, generationNumber |-> 65535,
                        inUse |-> FALSE],
                       [objNum |-> 1, offset |-> 17, generationNumber |-> 0,
                        inUse |-> TRUE] >>
              /\ trailer = [k \in {Tail(sSize), Tail(sRoot)} |->
                               IF k = Tail(sSize) THEN Integer(2) ELSE ObjRef(1, 0)]

C7_ExampleParsed ==
    /\ input = Example
    /\ pc = "buildFpdf"
    /\ Len(xrefTable.objTable) = 2
    /\ xrefTable.trailer = "recentDict"


(* The pairs of the dictionary text parsed last, and where its >> ends. *)
ParsedPairs ==
    IF hist.dicts = 1 THEN input.pairs
    ELSE CHOOSE ps \in SecondDicts : input.tail = TwoDictTail(ps)

Closings == {o \in 1..(Len(file) - 1) : file[o] = 62 /\ file[o + 1] = 62}

ParsedEnd ==
    IF hist.dicts = 1 THEN CHOOSE o \in Closings : \A q \in Closings : o <= q
    ELSE CHOOSE o \in Closings : \A q \in Closings : o >= q

\* C8: a parse of `<< k1 v1 ... kn vn >>` (keys names; values names, integers,
\* reals, references) yields the mapping with exactly those keys, each with
\* the value of its last occurrence, and leaves the cursor after the `>>`.
C8_DictYieldsItsPairs ==
    (input.kind \in {"table", "dict", "tail"} /\ hist.dicts \in {1, 2}) =>
        /\ hist.yield = Denoted(ParsedPairs)
        /\ hist.yieldAt > ParsedEnd

(* The same for the first dictionary parsed in a load only. *)
C8_FirstDictYieldsItsPairs ==
    (input.kind \in {"table", "dict", "tail"} /\ hist.dicts = 1) =>
        /\ hist.yield = Denoted(ParsedPairs)
        /\ hist.yieldAt > ParsedEnd


(* The reader before the last call, and the token a forward read at its    *)
(* cursor returns.                                                         *)
before == [cursorAt |-> hist.cursorAt, recentReading |-> hist.recentReading]

upcoming == pdfReadAt(file, badAt, before.cursorAt, FALSE, FALSE)

HasDot(tok) == \E i \in 1..Len(tok) : tok[i] = 46

\* C9: on a token starting with a digit the object parser decides by one peek:
\* next token a delimiter -> a scalar from the current token alone (Real if
\* it contains `.`, else Integer) and nothing more consumed; otherwise the
\* current and the next token are object and generation number of an
\* ObjectReference (`12 0 R` -> ObjectReference{12, 0}; `37` before a
\* delimiter -> Integer(37)).
C9_DigitTokenDecidedByPeek ==
    (/\ hist.op = "parsePDFObject"
     /\ IsDigit(before.recentReading[1])
     /\ upcoming.st = "ok") =>
        IF upcoming.reading[1] \in delimiterChars
        THEN /\ cursorAt = before.cursorAt
             /\ recentReading = before.recentReading
             /\ hist.st \in {"ok", "err"}
             /\ hist.st = "ok" <=>
                   IF HasDot(before.recentReading)
                   THEN ParseFloat(before.recentReading).ok
                   ELSE Atoi(before.recentReading).ok
             /\ hist.st = "ok" =>
                   IF HasDot(before.recentReading)
                   THEN hist.val = Real(ParseFloat(before.recentReading).n,
                                        ParseFloat(before.recentReading).g)
                   ELSE hist.val = Integer(Atoi(before.recentReading).n)
             /\ before.recentReading = <<51,55>> => hist.val = Integer(37)
             /\ before.recentReading = sReal => hist.val = Real(314, 2)
        ELSE /\ hist.st = "ok" =>
                   hist.val = ObjRef(Atoi(before.recentReading).n,
                                     Atoi(upcoming.reading).n)
             /\ hist.st = "err" =>
                   ~(Atoi(before.recentReading).ok /\ Atoi(upcoming.reading).ok)
             /\ (file = <<49,50,32,48,32,82>> /\ before.cursorAt = 3
                   /\ before.recentReading = <<49,50>>)
                   => (hist.st = "ok" /\ hist.val = ObjRef(12, 0))

C9_ReferenceParsed ==
    /\ hist.op = "parsePDFObject"
    /\ file = <<49,50,32,48,32,82>>
    /\ hist.st = "ok"
    /\ hist.val = ObjRef(12, 0)

\* C10: on a token whose first byte is neither `/` nor a digit the object
\* parser fails with an error; it never returns a value without one.
C10_OtherTokenIsError ==
    (/\ hist.op = "parsePDFObject"
     /\ before.recentReading[1] # 47
     /\ ~IsDigit(before.recentReading[1])) => hist.st = "err"

-----------------------------------------------------------------------------
(* The runs of a byte stream: its maximal stretches of bytes that are not  *)
(* whitespace, in order.                                                   *)
RunLen(f) ==
    CHOOSE k \in 1..Len(f) :
        /\ \A i \in 1..k : ~isInByteArr(f[i], whiteSpaceChars)
        /\ k = Len(f) \/ isInByteArr(f[k + 1], whiteSpaceChars)

RECURSIVE Runs(_)
Runs(f) ==
    IF f = <<>> THEN <<>>
    ELSE IF isInByteArr(f[1], whiteSpaceChars) THEN Runs(Tail(f))
    ELSE <<SubSeq(f, 1, RunLen(f))>> \o Runs(SubSeq(f, RunLen(f) + 1, Len(f)))

RegularRuns(f) == \A i \in 1..Len(f) : ~isInByteArr(f[i], delimiterChars)

\* C11: on a readable stream of regular-byte runs separated by whitespace,
\* the tokens returned by successive forward reads from offset 0 are exactly
\* the runs of the stream, in order, byte for byte.
C11_TokensAreRuns ==
    (pc \in {"cursor", "pdfReadAt"} /\ hist.pure /\ badAt = -1 /\ RegularRuns(file))
        => /\ Len(hist.toks) <= Len(Runs(file))
           /\ \A k \in 1..Len(hist.toks) : hist.toks[k] = Runs(file)[k]

-----------------------------------------------------------------------------
(* The classifier on its own: a stream of one byte, any byte value, and    *)
(* isInByteArr applied to it with each of the two tables.                  *)

Bytes == 0..255

InitBytes ==
    /\ input = [kind |-> "byte"]
    /\ file \in {<<b>> : b \in Bytes}
    /\ badAt = -1
    /\ fileOpen = TRUE
    /\ recentReading = <<>>
    /\ cursorAt = 0
    /\ recentDict = EmptyDict
    /\ pdfVersion = 0
    /\ xrefOffset = 0
    /\ xrefTable = ZeroXref
    /\ part = "objNumStart"
    /\ objRow = ZeroRow
    /\ objNum = 0
    /\ atKey = TRUE
    /\ cK = <<>>
    /\ pc = "cursor"
    /\ err = ""
    /\ hist = [op |-> "", st |-> "", err |-> "", tok |-> <<>>, val |-> Nil,
               cursorAt |-> 0, recentReading |-> <<>>,
               pure |-> TRUE, toks |-> <<>>, ws |-> FALSE, delim |-> FALSE]

(* isInByteArr(buf[0], whiteSpaceChars), isInByteArr(buf[0], delimiterChars) *)
classifyByte ==
    /\ pc = "cursor"
    /\ hist' = [Call("isInByteArr", "ok", "", file, Nil) EXCEPT
                   !.ws = isInByteArr(file[1], whiteSpaceChars),
                   !.delim = isInByteArr(file[1], delimiterChars)]
    /\ UNCHANGED <<recentReading, cursorAt, pc>>
    /\ UNCHANGED rest

NextBytes ==
    \/ classifyByte
    \/ readToken
    \/ pdfReadAtPastEOF

SpecBytes == InitBytes /\ [][NextBytes]_vars

\* C12: every byte value 0..255 is in exactly one class: whitespace (0, 9,
\* 10, 12, 13, 32), delimiter ( ( ) < > [ ] { } / % ) or regular (neither);
\* no byte is both whitespace and delimiter.  The read loop treats the three
\* classes apart: a first read of the one-byte stream skips a whitespace
\* byte, stops on a delimiter after taking it, and runs on past a regular one.
C12_ByteClasses ==
    LET b == file[1]
        white == b \in {0, 9, 10, 12, 13, 32}
        delim == b \in {40, 41, 60, 62, 91, 93, 123, 125, 47, 37}
    IN  /\ hist.op = "isInByteArr"
            => /\ hist.ws <=> white
               /\ hist.delim <=> delim
               /\ ~(hist.ws /\ hist.delim)
        /\ (hist.op = "pdfReadAt" /\ hist.cursorAt = 0)
            => /\ white <=> hist.st = "spin"
               /\ delim <=> (hist.st = "ok" /\ hist.tok = <<b>>)
               /\ (~white /\ ~delim) <=> (hist.st = "ok" /\ Len(hist.tok) = 2)

C12_SlashIsDelimiter ==
    /\ hist.op = "isInByteArr"
    /\ hist.tok = <<47>>
    /\ hist.delim
    /\ ~hist.ws

-----------------------------------------------------------------------------
(* The loop of parseXRefTable is about to read the token "trailer". *)
TrailerRead ==
    /\ pc = "xrefLoop"
    /\ recentReading # sStartxref
    /\ loopTok.st = "ok"
    /\ loopTok.reading = sTrailer

\* C13: whenever the token just read in the xref loop is "trailer", the part
\* becomes trailerPart whatever it was, the token is not converted as a number
\* or matched as an f/n flag, and the table, with any partly read row left
\* out, is as it was.
C13_TrailerSwitchesPart ==
    [][TrailerRead
         => /\ part' = "trailerPart"
            /\ xrefTable'.objTable = xrefTable.objTable
            /\ xrefTable'.objStart = xrefTable.objStart
            /\ xrefTable'.objEnd = xrefTable.objEnd
            /\ objRow' = objRow
            /\ objNum' = objNum
            /\ err' \notin {"strconv",
                            "malformed xref table third col can be only f or n"}]_vars

C13_TrailerCutsRow ==
    /\ part = "trailerPart"
    /\ recentReading # sTrailer
    /\ Len(xrefTable.objTable) = 1
    /\ objNum = xrefTable.objStart + 2
    /\ objRow.objNum = xrefTable.objStart + 1

-----------------------------------------------------------------------------
(* parseXRefTable has returned nil: Load goes on to buildFpdf and closeFile. *)
XrefSucceeded ==
    /\ hist.xrefStarted
    /\ \/ pc \in {"buildFpdf", "closeFile"}
       \/ pc = "returned" /\ err \in {"", "close"}

(* The bytes of "startxref" lie in the file right before the cursor, or    *)
(* before the one terminating byte the read consumed.                      *)
StartxrefJustRead ==
    /\ recentReading = sStartxref
    /\ \E e \in {cursorAt, cursorAt - 1} :
           e >= Len(sStartxref) /\ SubSeq(file, e - Len(sStartxref) + 1, e) = sStartxref

(* Every return of parseXRefTable: nil with "startxref" just read, or one  *)
(* of its errors.                                                          *)
C14_ReturnsNilOnlyAtStartxref ==
    /\ XrefSucceeded => StartxrefJustRead
    /\ (hist.xrefStarted /\ pc = "returned" /\ ~StartxrefJustRead)
           => err \in {"io", "strconv",
                       "malformed xref table third col can be only f or n",
                       "expected pdf dictionary", "pdf dictionary ending malformed"}

\* C14: parseXRefTable returns success only when the token read last is
\* "startxref", and every other way of leaving the parse returns an error:
\* the parse is never left without a return value.
C14_LeavesBySuccessOrError ==
    /\ C14_ReturnsNilOnlyAtStartxref
    /\ hist.xrefStarted => pc # "panicked"

-----------------------------------------------------------------------------
(* A table of two subsections, `0 1 row 3 1 row`, and the entry a row of   *)
(* it denotes under object number n.                                       *)
TwoSections(r) == Section(0, <<r>>) \o Section(3, <<r>>)

EntryOf(r, n) ==
    [objNum |-> n, offset |-> NumberOf(r[1]), generationNumber |-> NumberOf(r[2]),
     inUse |-> r[3] = sN]

\* C15: with two `start count` subsections before `trailer`, the second pair
\* is read as a new objStart/objEnd and not as entry columns, the parse
\* succeeds, and objTable holds the entries of both subsections, each numbered
\* from its subsection's start.
C15_SubsectionsRestartCycle ==
    \A r \in SectRows :
        (input.kind = "sect" /\ input.sect = TwoSections(r) /\ Opened) =>
            /\ pc \notin {"panicked", "pdfReadAt"}
            /\ Returned => err \in {"", "close"}
            /\ TableDone => xrefTable.objTable = <<EntryOf(r, 0), EntryOf(r, 3)>>

-----------------------------------------------------------------------------
(* Tails that put tokens, none of them a dictionary, between the `>>` of   *)
(* the trailer dictionary and `startxref`.                                 *)
SkipTails == {<<sX, sStartxref>>, <<sX, sX, sStartxref>>}

\* C16: in the trailer part exactly one dictionary is parsed into trailer;
\* the tokens between its `>>` and `startxref` are read and skipped, and at
\* `startxref` the parse ends in success, whatever those tokens are.
C16_TokensAfterTrailerSkipped ==
    (input.kind = "tail" /\ input.tail \in SkipTails /\ Opened) =>
        /\ pc \notin {"panicked", "pdfReadAt"}
        /\ Returned => err \in {"", "close"}
        /\ hist.dicts <= 1
        /\ TableDone => (hist.dicts = 1 /\ trailer = Denoted(input.pairs))

-----------------------------------------------------------------------------
\* C17: a forward read started at an offset at or past the end of the stream
\* returns an error: it ends, and it yields no token.
C17_ReadPastEndIsError ==
    (hist.op = "pdfReadAt" /\ hist.cursorAt >= Len(file))
        => (pc = "cursor" /\ hist.st = "err")

-----------------------------------------------------------------------------
(* parsePDFDict is at a key position and the object parsed there is not a  *)
(* name.                                                                   *)
NonNameKey ==
    /\ pc = "dictLoop"
    /\ atKey
    /\ ~HasSuffix(recentReading, sGT)
    /\ dictObj.st = "ok"
    /\ dictObj.val.t # "Name"

\* C18: a token in key position of a dictionary that does not resolve to a
\* name makes the dictionary parse return a parse error; the parse does not
\* abort, and nothing is stored in the dictionary.
C18_NonNameKeyIsParseError ==
    [][NonNameKey
         => /\ pc' = "returned"
            /\ err' \in ParseErrors
            /\ recentDict' = recentDict]_vars

-----------------------------------------------------------------------------
(* The entries of objTable are numbered from objStart, one by one. *)
NumberedFromStart(t) ==
    \A i \in 1..Len(t.objTable) : t.objTable[i].objNum = t.objStart + (i - 1)

\* C19: in every state of the xref table parser, whatever the tokens, the
\* i-th entry appended to objTable (from 0) has objNum = objStart + i; and
\* objTable changes only by one entry appended in part objTabCol3 on a token
\* `f` or `n`.
C19_EntriesNumberedFromStart ==
    [][/\ NumberedFromStart(xrefTable')
       /\ xrefTable'.objTable # xrefTable.objTable
            => /\ part = "objTabCol3"
               /\ recentReading' \in {sF, sN}
               /\ Len(xrefTable'.objTable) = Len(xrefTable.objTable) + 1
               /\ SubSeq(xrefTable'.objTable, 1, Len(xrefTable.objTable))
                      = xrefTable.objTable]_vars

C19_TwoEntriesFromThree ==
    /\ xrefTable.objStart = 3
    /\ Len(xrefTable.objTable) = 2
    /\ xrefTable.objTable[2].objNum = 4

-----------------------------------------------------------------------------
(* Where a token read from offset o lies in the file: TokFirst is the      *)
(* offset of the first byte at or after o (at or before o, backwards) that *)
(* is not whitespace, TokStop the offset of the first byte beyond it that  *)
(* is not regular (the length of the file, or -1, when there is none).     *)
IsWhite(o)   == isInByteArr(file[o + 1], whiteSpaceChars)
IsDelim(o)   == isInByteArr(file[o + 1], delimiterChars)
IsRegular(o) == ~IsWhite(o) /\ ~IsDelim(o)

TokFirst(o, back) ==
    IF back
    THEN CHOOSE s \in 0..(Len(file) - 1) :
             s <= o /\ ~IsWhite(s) /\ \A q \in (s + 1)..(Len(file) - 1) : q <= o => IsWhite(q)
    ELSE CHOOSE s \in o..(Len(file) - 1) :
             ~IsWhite(s) /\ \A q \in o..(s - 1) : IsWhite(q)

TokStop(s, back) ==
    IF back
    THEN CHOOSE e \in -1..(s - 1) :
             (\A q \in (e + 1)..(s - 1) : IsRegular(q)) /\ (e = -1 \/ ~IsRegular(e))
    ELSE CHOOSE e \in (s + 1)..Len(file) :
             (\A q \in (s + 1)..(e - 1) : IsRegular(q)) /\ (e = Len(file) \/ ~IsRegular(e))

ForwardOps  == {"pdfReadAt", "pdfReadAt headfoot"}
BackwardOps == {"pdfReadAt back", "pdfReadAt back headfoot"}

\* C20: a read that returns a token returns at least one byte and moves the
\* cursor: forward beyond the offset it started at, backward below it.  When
\* a delimiter ends the token (non-header mode), the cursor is left on that
\* delimiter, and the next forward read, if it returns, starts with it.
C20_ReadMakesProgress ==
    (pc = "cursor" /\ hist.op \in ForwardOps \cup BackwardOps /\ hist.st = "ok") =>
        LET back == hist.op \in BackwardOps
            s    == TokFirst(hist.cursorAt, back)
            e    == TokStop(s, back)
            next == pdfReadAt(file, badAt, cursorAt, FALSE, FALSE)
        IN  /\ Len(hist.tok) >= 1
            /\ hist.tok = recentReading
            /\ back => cursorAt < hist.cursorAt
            /\ ~back => cursorAt > hist.cursorAt
            /\ (hist.op \in {"pdfReadAt", "pdfReadAt back"}
                /\ 0 <= e /\ e < Len(file) /\ IsDelim(e))
                  => /\ cursorAt = e
                     /\ next.st = "ok" => next.reading[1] = file[e + 1]

C20_StoppedOnDelimiter ==
    /\ pc = "cursor"
    /\ hist.op = "pdfReadAt"
    /\ hist.st = "ok"
    /\ file = <<51,55,47>>
    /\ hist.tok = <<51,55>>
    /\ cursorAt = 2

====
